---- MODULE Spec2Model ----
(***************************************************************************)
(* State-machine model of the 18-nine backend: accounts (referral codes),  *)
(* store (products, variants, images, storefront listing, offer price)     *)
(* and catalog (taxonomy terms, colour swatches).                          *)
(*                                                                         *)
(* Tables are functions whose DOMAIN is the set of stored primary keys.    *)
(* Text values are sequences of one-character strings, so that slugify,    *)
(* splitext and the referral-code alphabet are computed character by       *)
(* character.                                                              *)
(***************************************************************************)
EXTENDS Integers, Sequences, FiniteSets, TLC

VARIABLES
    obj,          \* accounts: in-memory CustomUser objects, [referral_code]
    userRows,     \* accounts: stored users, pk -> referral_code
    pc,           \* accounts: position of each object's save() call
    cand,         \* accounts: last candidate drawn by the retry loop
    genCodes,     \* accounts: codes returned by generate_unique_referral_code
    saveResult,   \* accounts: outcome of each object's last super().save()
    base_price,   \* price: Product.base_price in hundredths
    offer_percentage, \* price: ProductVariant.offer_percentage
    offer_price,  \* price: Decimal returned by get_offer_price
    price_pc,     \* price: "idle", "input", "returned" or "admin:TypeError"
    color_image,  \* catalog: Color.image, [name, format, content_type, size]
    color_pc,     \* catalog: "idle", "uploaded" or "saved"
    terms,        \* catalog: stored Pattern/Fabric/Shape/Length/Neck/
                  \*          SleeveLength pks, by kind
    sizes,        \* catalog: stored Size rows, pk -> name
    products,     \* store: stored Product rows, pk -> [name, fk]
    variants,     \* store: stored ProductVariant rows
    images,       \* store: stored ProductVariantImage rows
    nulls_first,  \* store: whether the database sorts NULL before values
    request,      \* store: the request being served, [op, ...]
    context,      \* store: HomeView's context['products'] of the request
    sizeAttributes, \* store: stored SizeAttribute rows
    reviews,      \* store: stored UserReview rows
    reviewImages, \* store: stored ReviewImage rows
    attributes,   \* catalog: stored SizeAttribute pks
    deleted,      \* store: what the last delete() returned, [model, rows]
    storeError,   \* store: outcome of the last write
    lastSave      \* store: the object of the last ProductVariant.save and
                  \*        the row it was saved into, [v, d]

userVars == <<obj, userRows, pc, cand, genCodes, saveResult>>
priceVars == <<base_price, offer_percentage, offer_price, price_pc>>
colorVars == <<color_image, color_pc>>
cascadeVars == <<sizeAttributes, reviews, reviewImages, attributes, deleted>>
storeVars == <<terms, sizes, products, variants, images, nulls_first,
               request, context, storeError, lastSave, sizeAttributes,
               reviews, reviewImages, attributes, deleted>>
vars == <<obj, userRows, pc, cand, genCodes, saveResult,
          base_price, offer_percentage, offer_price, price_pc,
          color_image, color_pc,
          terms, sizes, products, variants, images, nulls_first,
          request, context, storeError, lastSave, sizeAttributes,
          reviews, reviewImages, attributes, deleted>>

----------------------------------------------------------------------------
(* Bounds of the model *)

MaxUsers == 2
NumDraws == 2

----------------------------------------------------------------------------
(* accounts/models.py *)

\* string.ascii_uppercase + string.digits
Alphabet ==
    <<"A","B","C","D","E","F","G","H","I","J","K","L","M",
      "N","O","P","Q","R","S","T","U","V","W","X","Y","Z",
      "0","1","2","3","4","5","6","7","8","9">>

\* k=8 of random.choices
CodeLen == 8

UserIds == 1..MaxUsers

\* The outcomes of the random generator the model draws from: draw d picks
\* CodeLen independent positions of the alphabet.
Draws == 0..(NumDraws - 1)

PickIndex(d, i) == (((d + 1) * 5 * i + d * 11) % Len(Alphabet)) + 1

\* A slip in the number of characters drawn.
RandomChoicesShort(d) == [i \in 1..(CodeLen - 1) |-> Alphabet[PickIndex(d, i)]]

\* ''.join(random.choices(string.ascii_uppercase + string.digits, k=8))
RandomChoices(d) == [i \in 1..CodeLen |-> Alphabet[PickIndex(d, i)]]

\* A lookup that finds nothing.
CodeExistsNever(code) == FALSE

\* CustomUser.objects.filter(referral_code=code).exists()
CodeExists(code) == \E k \in DOMAIN userRows : userRows[k] = code

\* Codes application code or the admin change form may assign: one that the
\* generator can also draw, and one of another length and case.
SuppliedCodes == {RandomChoices(0), <<"x", "1">>}

\* Assignment of the referral_code attribute of an in-memory object
\* (construction with a supplied code, or a later edit).  The other unique
\* column, phone_number, is taken to differ from user to user.
SetReferralCode(u, c) ==
    /\ pc[u] = "idle"
    /\ obj[u].referral_code # c
    /\ obj' = [obj EXCEPT ![u].referral_code = c]
    /\ UNCHANGED <<userRows, pc, cand, genCodes, saveResult>>

\* A save that generates whatever the object holds.
SaveBeginAlways(u) ==
    /\ pc[u] = "idle"
    /\ pc' = [pc EXCEPT ![u] = "gen"]
    /\ UNCHANGED <<obj, userRows, cand, genCodes, saveResult>>

\* CustomUser.save, entry: "if not self.referral_code"
SaveBegin(u) ==
    /\ pc[u] = "idle"
    /\ pc' = [pc EXCEPT ![u] =
                IF obj[u].referral_code = <<>> THEN "gen" ELSE "insert"]
    /\ UNCHANGED <<obj, userRows, cand, genCodes, saveResult>>

\* generate_unique_referral_code: one iteration whose candidate is in use
GenRetry(u) ==
    /\ pc[u] = "gen"
    /\ \E d \in Draws :
          /\ CodeExists(RandomChoices(d))
          /\ cand' = [cand EXCEPT ![u] = RandomChoices(d)]
    /\ UNCHANGED <<obj, userRows, pc, genCodes, saveResult>>

\* generate_unique_referral_code: the iteration that returns, and the
\* assignment self.referral_code = <returned code>
GenReturn(u) ==
    /\ pc[u] = "gen"
    /\ \E d \in Draws :
          /\ ~CodeExists(RandomChoices(d))
          /\ obj' = [obj EXCEPT ![u].referral_code = RandomChoices(d)]
          /\ genCodes' = genCodes \cup {RandomChoices(d)}
    /\ cand' = [cand EXCEPT ![u] = <<>>]
    /\ pc' = [pc EXCEPT ![u] = "insert"]
    /\ UNCHANGED <<userRows, saveResult>>

\* A table without the unique index.
ReferralCodeUniqueDropped(u, code) == TRUE

\* unique=True on referral_code: no other row holds the value
ReferralCodeUnique(u, code) ==
    \A k \in DOMAIN userRows : k # u => userRows[k] # code

\* super().save(): INSERT (or UPDATE of the object's own row); a violated
\* unique index raises IntegrityError and stores nothing.
SuperSave(u) ==
    /\ pc[u] = "insert"
    /\ IF ReferralCodeUnique(u, obj[u].referral_code)
          THEN /\ userRows' = [k \in DOMAIN userRows \cup {u} |->
                                 IF k = u THEN obj[u].referral_code
                                          ELSE userRows[k]]
               /\ saveResult' = [saveResult EXCEPT ![u] = "saved"]
          ELSE /\ userRows' = userRows
               /\ saveResult' = [saveResult EXCEPT ![u] = "IntegrityError"]
    /\ pc' = [pc EXCEPT ![u] = "idle"]
    /\ UNCHANGED <<obj, cand, genCodes>>

\* Requests are served one at a time: an object's save runs to its end
\* before another object is touched.
NoOtherSaveRunning(u) == \A v \in UserIds : v # u => pc[v] = "idle"

UserInit ==
    /\ obj = [u \in UserIds |-> [referral_code |-> <<>>]]
    /\ userRows = <<>>
    /\ pc = [u \in UserIds |-> "idle"]
    /\ cand = [u \in UserIds |-> <<>>]
    /\ genCodes = {}
    /\ saveResult = [u \in UserIds |-> "none"]

----------------------------------------------------------------------------
(* store/models.py: ProductVariant.get_offer_price, on decimal.Decimal *)

MaxCents == 3

\* precision of the default decimal context
Prec == 28

RECURSIVE Pow10(_)
Pow10(n) == IF n <= 0 THEN 1 ELSE 10 * Pow10(n - 1)

RECURSIVE NumDigits(_)
NumDigits(n) == IF n < 10 THEN 1 ELSE 1 + NumDigits(n \div 10)

\* A Decimal is Python's triple (_sign, _int, _exp): (-1)^sign * int * 10^exp
Dec(sign, int, exp) == [sign |-> sign, int |-> int, exp |-> exp]

Signed(d) == IF d.sign = 1 THEN 0 - d.int ELSE d.int

\* Decimal(n) of an int
DecFromInt(n) == IF n < 0 THEN Dec(1, 0 - n, 0) ELSE Dec(0, n, 0)

\* The value a DecimalField(decimal_places=2) column holds, from hundredths
DecFromCents(c) == IF c < 0 THEN Dec(1, 0 - c, 0 - 2) ELSE Dec(0, c, 0 - 2)

\* Decimal._fix: round to the context precision, ROUND_HALF_EVEN
Fix(d) ==
    IF NumDigits(d.int) <= Prec
       THEN d
       ELSE LET drop == NumDigits(d.int) - Prec
                q == d.int \div Pow10(drop)
                r == d.int % Pow10(drop)
                half == 5 * Pow10(drop - 1)
                up == r > half \/ (r = half /\ q % 2 = 1)
            IN  Dec(d.sign, IF up THEN q + 1 ELSE q, d.exp + drop)

Min(a, b) == IF a <= b THEN a ELSE b

\* Decimal.__sub__: exponents aligned to the smaller one
DecSub(a, b) ==
    LET e == Min(a.exp, b.exp)
        v == Signed(a) * Pow10(a.exp - e) - Signed(b) * Pow10(b.exp - e)
    IN  Fix(IF v < 0 THEN Dec(1, 0 - v, e) ELSE Dec(0, v, e))

\* The exact quotient with the exponent closest to the ideal one: the least
\* shift k with b | a * 10^k.  (Decimal.__truediv__ divides at Prec + 1
\* extra digits and strips trailing zeros down to the ideal exponent.)
RECURSIVE ExactShift(_, _, _)
ExactShift(a, b, k) ==
    IF (a * Pow10(k)) % b = 0 \/ k >= Prec THEN k ELSE ExactShift(a, b, k + 1)

\* Floor division in place of true division.
DecFloorDiv(a, b) ==
    Dec((a.sign + b.sign) % 2, a.int \div b.int, 0)

\* Decimal.__truediv__ (b nonzero)
DecDiv(a, b) ==
    IF a.int = 0
       THEN Dec((a.sign + b.sign) % 2, 0, a.exp - b.exp)
       ELSE LET k == ExactShift(a.int, b.int, 0)
            IN  Fix(Dec((a.sign + b.sign) % 2,
                        (a.int * Pow10(k)) \div b.int,
                        a.exp - b.exp - k))

\* Decimal.__mul__
DecMul(a, b) ==
    Fix(Dec((a.sign + b.sign) % 2, a.int * b.int, a.exp + b.exp))

\* ProductVariant.get_offer_price:
\*   (Decimal(100) - Decimal(self.offer_percentage)) / Decimal(100) * base_price
get_offer_price(bp, pct) ==
    DecMul(DecDiv(DecSub(DecFromInt(100), DecFromInt(pct)), DecFromInt(100)),
           DecFromCents(bp))

\* Base prices in hundredths: a neighbourhood of zero on both sides (the
\* column has no sign restriction), and three catalogue prices.
BasePrices == ((0 - MaxCents)..MaxCents) \cup {1999, 20000, 9999999}

\* offer_percentage is an IntegerField: the validators (0..99) run in forms
\* only, so values outside the range are inputs too.
OfferPercentages == (0..99) \cup {0 - 5, 100, 150}

PriceIdle ==
    /\ base_price = 0
    /\ offer_percentage = 0
    /\ offer_price = Dec(0, 0, 0)
    /\ price_pc = "idle"

PriceInit ==
    /\ base_price \in BasePrices
    /\ offer_percentage \in OfferPercentages
    /\ offer_price = Dec(0, 0, 0)
    /\ price_pc = "input"

\* Reading variant.get_offer_price
GetOfferPrice ==
    /\ price_pc = "input"
    /\ offer_price' = get_offer_price(base_price, offer_percentage)
    /\ price_pc' = "returned"
    /\ UNCHANGED <<base_price, offer_percentage>>

\* ProductVariantAdmin.get_offer_price(obj) returns obj.get_offer_price():
\* get_offer_price is a property of the variant, so the attribute is already
\* the Decimal, and calling a Decimal raises TypeError; the column yields
\* no value
AdminGetOfferPrice ==
    /\ price_pc = "input"
    /\ price_pc' = "admin:TypeError"
    /\ UNCHANGED <<base_price, offer_percentage, offer_price>>

----------------------------------------------------------------------------
(* catalog/models.py: Color.save *)

MaxStemLen == 1

\* Sequences over S of length at most n
RECURSIVE SeqsUpTo(_, _)
SeqsUpTo(S, n) ==
    IF n = 0 THEN {<<>>}
    ELSE LET shorter == SeqsUpTo(S, n - 1)
         IN  shorter \cup {Append(t, c) : t \in shorter, c \in S}

\* str.lower, on one character
LowerChar(c) ==
    CASE c = "P" -> "p"
      [] c = "N" -> "n"
      [] c = "G" -> "g"
      [] c = "R" -> "r"
      [] c = "T" -> "t"
      [] c = "M" -> "m"
      [] OTHER -> c

\* str.lower
Lower(t) == [i \in 1..Len(t) |-> LowerChar(t[i])]

\* Index of the last occurrence of character c in t, 0 when there is none
LastIndexOf(t, c) ==
    LET hits == {i \in 1..Len(t) : t[i] = c}
    IN  IF hits = {} THEN 0 ELSE CHOOSE i \in hits : \A j \in hits : j <= i

\* os.path.splitext(p)[1]: from the last dot of the last path component,
\* unless only dots precede it in that component
SplitExt(t) ==
    LET dot == LastIndexOf(t, ".")
        sep == LastIndexOf(t, "/")
    IN  IF dot > sep /\ \E i \in (sep + 1)..(dot - 1) : t[i] # "."
           THEN SubSeq(t, dot, Len(t))
           ELSE <<>>

\* file_extension == 'png'
IsPngExtension(ext) == ext = <<"p", "n", "g">>

\* Names of uploaded files: a stem of letters and dots, then up to four
\* characters among those of ".png" and ".Png"; <<>> is a Color saved
\* without an image
FileNameChars == {".", "p", "n", "g", "P"}

FileNames ==
    {stem \o rest : stem \in SeqsUpTo({"s", "."}, MaxStemLen),
                    rest \in SeqsUpTo(FileNameChars, 4)}

\* An upload: PNG or JPEG data of some size, under any of the names
Uploads ==
    {[name |-> n, format |-> f.format, content_type |-> f.content_type,
      size |-> z] :
        n \in FileNames,
        f \in {[format |-> "PNG", content_type |-> "image/png"],
               [format |-> "JPEG", content_type |-> "image/jpeg"]},
        z \in {<<50, 50>>, <<120, 80>>}}

ColorIdle ==
    /\ color_image = [name |-> <<>>, format |-> "PNG",
                      content_type |-> "image/png", size |-> <<50, 50>>]
    /\ color_pc = "idle"

ColorInit ==
    /\ color_image \in Uploads
    /\ color_pc = "uploaded"

\* Color.save: resize to 50x50 and re-encode by extension, then store
ColorSave ==
    /\ color_pc \in {"uploaded", "saved"}
    /\ color_image' =
          IF color_image.name = <<>>
             THEN color_image
             ELSE IF IsPngExtension(Lower(SplitExt(color_image.name)))
                     THEN [name |-> color_image.name, format |-> "PNG",
                           content_type |-> "image/png", size |-> <<50, 50>>]
                     ELSE [name |-> color_image.name, format |-> "JPEG",
                           content_type |-> "image/jpeg", size |-> <<50, 50>>]
    /\ color_pc' = "saved"

----------------------------------------------------------------------------
(* store/models.py and catalog/models.py: products and taxonomy terms *)

MaxProducts == 2

ProductIds == 1..MaxProducts

\* The six taxonomy references of Product, all on_delete=PROTECT
Kinds == {"pattern", "fabric", "shape", "length", "neck", "sleeve_length"}

\* The catalogue the model starts from: two patterns and two fabrics, one
\* term of every other kind
TermPopulation ==
    [k \in Kinds |-> IF k \in {"pattern", "fabric"} THEN {1, 2} ELSE {1}]

\* Two sizes, "M" and "S"
SizePopulation == <<<<"M">>, <<"S">>>>

\* Product names by pk: the second one has no letter or digit
ProductNames == {<<"T">>, <<"!">>}

NoRequest == [op |-> "none"]

NoSave ==
    [v |-> 0,
     d |-> [product |-> 0, variant_name |-> <<>>, size |-> 0, sku |-> 0,
            slug |-> <<>>, offer_percentage |-> 0]]

\* One catalog.SizeAttribute ("Chest", say)
AttributePopulation == {1}

\* The row counts by model that delete() returns
Counts(p, v, i, a, r, g) ==
    [products |-> p, variants |-> v, images |-> i, sizeAttributes |-> a,
     reviews |-> r, reviewImages |-> g]

NoDelete == [model |-> "none", rows |-> Counts(0, 0, 0, 0, 0, 0)]

\* No size attribute, review or review image is stored
ChildTablesIdle ==
    /\ sizeAttributes = <<>>
    /\ reviews = <<>>
    /\ reviewImages = <<>>
    /\ attributes = AttributePopulation
    /\ deleted = NoDelete

\* Removal of the rows with pk in gone from a table
Without(table, gone) == [k \in (DOMAIN table) \ gone |-> table[k]]

\* Insertion or replacement of row k
WithRow(table, k, row) ==
    [j \in (DOMAIN table) \cup {k} |-> IF j = k THEN row ELSE table[j]]

\* Product(...).save() of a new product; every reference must name a stored
\* term (foreign key).  The slug, prices and texts of the row play no part
\* in what follows and are left out.
ProductCreate(p, name, fk) ==
    /\ request.op = "none"
    /\ p \notin DOMAIN products
    /\ IF \A k \in Kinds : fk[k] \in terms[k]
          THEN /\ products' = WithRow(products, p, [name |-> name, fk |-> fk])
               /\ storeError' = "ok"
          ELSE /\ products' = products
               /\ storeError' = "IntegrityError"
    /\ UNCHANGED <<terms, sizes, variants, images, nulls_first, request,
                   context, lastSave>>
    /\ UNCHANGED cascadeVars

\* The rows that reference one of the variants
ImagesOfVariants(gone) == {i \in DOMAIN images : images[i].variant \in gone}

SizeAttributesOfVariants(gone) ==
    {k \in DOMAIN sizeAttributes : sizeAttributes[k].product_variant \in gone}

ReviewsOfVariants(gone) ==
    {r \in DOMAIN reviews : reviews[r].product_variant \in gone}

ImagesOfReviews(gone) ==
    {g \in DOMAIN reviewImages : reviewImages[g].review \in gone}

\* A collector that stops at the reviews.
CollectVariantsShallow(gone) ==
    /\ variants' = Without(variants, gone)
    /\ images' = Without(images, ImagesOfVariants(gone))
    /\ sizeAttributes' = Without(sizeAttributes, SizeAttributesOfVariants(gone))
    /\ reviews' = Without(reviews, ReviewsOfVariants(gone))
    /\ reviewImages' = reviewImages

\* The deletion of variants as the collector carries it out: on_delete=CASCADE
\* takes their images, size attributes and reviews along, and the reviews'
\* images
CollectVariants(gone) ==
    /\ variants' = Without(variants, gone)
    /\ images' = Without(images, ImagesOfVariants(gone))
    /\ sizeAttributes' = Without(sizeAttributes, SizeAttributesOfVariants(gone))
    /\ reviews' = Without(reviews, ReviewsOfVariants(gone))
    /\ reviewImages' = Without(reviewImages,
                               ImagesOfReviews(ReviewsOfVariants(gone)))

\* The counts delete() returns for a deletion that takes the variants along
VariantCounts(p, gone) ==
    Counts(p, Cardinality(gone),
           Cardinality(ImagesOfVariants(gone)),
           Cardinality(SizeAttributesOfVariants(gone)),
           Cardinality(ReviewsOfVariants(gone)),
           Cardinality(ImagesOfReviews(ReviewsOfVariants(gone))))

\* Product.delete(): on_delete=CASCADE takes the product's variants along,
\* and with them every row that references them
ProductDelete(p) ==
    /\ request.op = "none"
    /\ p \in DOMAIN products
    /\ LET goneVariants == {v \in DOMAIN variants : variants[v].product = p}
       IN  /\ products' = Without(products, {p})
           /\ CollectVariants(goneVariants)
           /\ deleted' = [model |-> "Product",
                          rows |-> VariantCounts(1, goneVariants)]
    /\ storeError' = "ok"
    /\ UNCHANGED <<terms, sizes, nulls_first, request, context, lastSave,
                   attributes>>

\* ProductVariant.delete()
VariantDelete(v) ==
    /\ request.op = "none"
    /\ v \in DOMAIN variants
    /\ CollectVariants({v})
    /\ deleted' = [model |-> "ProductVariant", rows |-> VariantCounts(0, {v})]
    /\ storeError' = "ok"
    /\ UNCHANGED <<terms, sizes, products, nulls_first, request, context,
                   lastSave, attributes>>

\* catalog.Size.delete(): ProductVariant.size is on_delete=SET_NULL, the
\* size of a store SizeAttribute on_delete=CASCADE
SizeDelete(z) ==
    /\ request.op = "none"
    /\ z \in DOMAIN sizes
    /\ sizes' = Without(sizes, {z})
    /\ variants' = [v \in DOMAIN variants |->
                       IF variants[v].size = z
                          THEN [variants[v] EXCEPT !.size = 0]
                          ELSE variants[v]]
    /\ LET gone == {k \in DOMAIN sizeAttributes : sizeAttributes[k].size = z}
       IN  /\ sizeAttributes' = Without(sizeAttributes, gone)
           /\ deleted' = [model |-> "Size",
                          rows |-> Counts(0, 0, 0, Cardinality(gone), 0, 0)]
    /\ storeError' = "ok"
    /\ UNCHANGED <<terms, products, images, nulls_first, request, context,
                   lastSave, reviews, reviewImages, attributes>>

\* catalog.SizeAttribute.delete(): the attribute of a store SizeAttribute is
\* on_delete=CASCADE
AttributeDelete(a) ==
    /\ request.op = "none"
    /\ a \in attributes
    /\ attributes' = attributes \ {a}
    /\ LET gone == {k \in DOMAIN sizeAttributes :
                       sizeAttributes[k].attribute = a}
       IN  /\ sizeAttributes' = Without(sizeAttributes, gone)
           /\ deleted' = [model |-> "SizeAttribute",
                          rows |-> Counts(0, 0, 0, Cardinality(gone), 0, 0)]
    /\ storeError' = "ok"
    /\ UNCHANGED <<terms, sizes, products, variants, images, nulls_first,
                   request, context, lastSave, reviews, reviewImages>>

\* CustomUser.delete() of a user no save of which is running: the user of a
\* UserReview is on_delete=CASCADE
UserDelete(u) ==
    /\ request.op = "none"
    /\ u \in DOMAIN userRows
    /\ pc[u] = "idle"
    /\ userRows' = Without(userRows, {u})
    /\ LET gone == {r \in DOMAIN reviews : reviews[r].user = u}
       IN  /\ reviews' = Without(reviews, gone)
           /\ reviewImages' = Without(reviewImages, ImagesOfReviews(gone))
           /\ deleted' = [model |-> "CustomUser",
                          rows |-> Counts(0, 0, 0, 0, Cardinality(gone),
                                          Cardinality(ImagesOfReviews(gone)))]
    /\ storeError' = "ok"
    /\ UNCHANGED <<obj, pc, cand, genCodes, saveResult>>
    /\ UNCHANGED <<terms, sizes, products, variants, images, nulls_first,
                   request, context, lastSave, sizeAttributes, attributes>>

\* SizeAttribute(size=..., product_variant=..., attribute=...).save() of a
\* new row; every reference must name a stored row
SizeAttributeCreate(k, size, variant, attribute) ==
    /\ request.op = "none"
    /\ k \notin DOMAIN sizeAttributes
    /\ IF /\ size \in DOMAIN sizes
          /\ variant \in DOMAIN variants
          /\ attribute \in attributes
          THEN /\ sizeAttributes' =
                     WithRow(sizeAttributes, k,
                             [size |-> size, product_variant |-> variant,
                              attribute |-> attribute])
               /\ storeError' = "ok"
          ELSE /\ sizeAttributes' = sizeAttributes
               /\ storeError' = "IntegrityError"
    /\ UNCHANGED <<terms, sizes, products, variants, images, nulls_first,
                   request, context, lastSave, reviews, reviewImages,
                   attributes, deleted>>

\* UserReview(user=..., product_variant=...).save() of a new review
ReviewCreate(k, user, variant) ==
    /\ request.op = "none"
    /\ k \notin DOMAIN reviews
    /\ IF user \in DOMAIN userRows /\ variant \in DOMAIN variants
          THEN /\ reviews' = WithRow(reviews, k,
                                     [user |-> user,
                                      product_variant |-> variant])
               /\ storeError' = "ok"
          ELSE /\ reviews' = reviews
               /\ storeError' = "IntegrityError"
    /\ UNCHANGED <<terms, sizes, products, variants, images, nulls_first,
                   request, context, lastSave, sizeAttributes, reviewImages,
                   attributes, deleted>>

\* ReviewImage(review=...).save() of a new image
ReviewImageCreate(k, review) ==
    /\ request.op = "none"
    /\ k \notin DOMAIN reviewImages
    /\ IF review \in DOMAIN reviews
          THEN /\ reviewImages' = WithRow(reviewImages, k, [review |-> review])
               /\ storeError' = "ok"
          ELSE /\ reviewImages' = reviewImages
               /\ storeError' = "IntegrityError"
    /\ UNCHANGED <<terms, sizes, products, variants, images, nulls_first,
                   request, context, lastSave, sizeAttributes, reviews,
                   attributes, deleted>>

\* A reference that deletes nothing and protects nothing.
TermReferencedNever(kind, t) == FALSE

\* on_delete=models.PROTECT: some product references term t of the kind
TermReferenced(kind, t) ==
    \E p \in DOMAIN products : products[p].fk[kind] = t

\* Pattern/Fabric/Shape/Length/Neck/SleeveLength .delete()
TermDelete(kind, t) ==
    /\ request.op = "none"
    /\ t \in terms[kind]
    /\ IF TermReferenced(kind, t)
          THEN /\ terms' = terms
               /\ storeError' = "ProtectedError"
          ELSE /\ terms' = [terms EXCEPT ![kind] = @ \ {t}]
               /\ storeError' = "ok"
    /\ UNCHANGED <<sizes, products, variants, images, nulls_first, request,
                   context, lastSave>>
    /\ UNCHANGED cascadeVars

StoreIdle ==
    /\ terms = TermPopulation
    /\ sizes = SizePopulation
    /\ products = <<>>
    /\ variants = <<>>
    /\ images = <<>>
    /\ nulls_first = TRUE
    /\ request = NoRequest
    /\ context = <<>>
    /\ storeError = "ok"
    /\ lastSave = NoSave
    /\ ChildTablesIdle

----------------------------------------------------------------------------
(* store/models.py: ProductVariant.save and the slug field *)

MaxVariants == 2

VariantIds == 1..MaxVariants

\* max_length of an AutoSlugField
SlugMaxLength == 50

\* \w of the ASCII characters the model uses, after lower()
IsWordChar(c) ==
    c \in {"r", "m", "t", "s", "_",
           "0", "1", "2", "3", "4", "5", "6", "7", "8", "9"}

IsSeparator(c) == c \in {" ", "-"}

\* re.sub(r'[-\s]+', '-', value): runs of hyphens and spaces become one "-"
RECURSIVE CollapseSeparators(_)
CollapseSeparators(t) ==
    IF t = <<>> THEN <<>>
    ELSE LET rest == CollapseSeparators(Tail(t))
         IN  IF IsSeparator(Head(t))
                THEN IF rest # <<>> /\ Head(rest) = "-"
                        THEN rest
                        ELSE <<"-">> \o rest
                ELSE <<Head(t)>> \o rest

\* str.strip('-_')
RECURSIVE StripLeft(_)
StripLeft(t) ==
    IF t # <<>> /\ Head(t) \in {"-", "_"} THEN StripLeft(Tail(t)) ELSE t

RECURSIVE StripRight(_)
StripRight(t) ==
    IF t # <<>> /\ t[Len(t)] \in {"-", "_"}
       THEN StripRight(SubSeq(t, 1, Len(t) - 1))
       ELSE t

\* A slugify that keeps the case of its input.
SlugifyKeepCase(t) ==
    StripRight(StripLeft(CollapseSeparators(
        SelectSeq(t, LAMBDA c : IsWordChar(LowerChar(c)) \/ IsSeparator(c)))))

\* autoslug.settings.slugify (django.utils.text.slugify on ASCII text):
\* lower-case, drop what is not a word character, space or hyphen, collapse
\* separators into single hyphens, strip hyphens and underscores at the ends
Slugify(t) ==
    StripRight(StripLeft(CollapseSeparators(
        SelectSeq(Lower(t), LAMBDA c : IsWordChar(c) \/ IsSeparator(c)))))

\* '%d' % n
RECURSIVE IntToChars(_)
IntToChars(n) ==
    LET digit == <<"0", "1", "2", "3", "4", "5", "6", "7", "8", "9">>[(n % 10) + 1]
    IN  IF n < 10 THEN <<digit>> ELSE Append(IntToChars(n \div 10), digit)

\* f"{self.variant_name}{' - ' + self.size.name if self.size else ''}"
SlugString(d) ==
    d.variant_name \o
        (IF d.size # 0 THEN <<" ", "-", " ">> \o sizes[d.size] ELSE <<>>)

\* ProductVariant.save before super().save(): the object's slug attribute
ObjectSlug(d) == IF d.slug = <<>> THEN Slugify(SlugString(d)) ELSE d.slug

\* crop_slug
CropSlug(t) == SubSeq(t, 1, Min(Len(t), SlugMaxLength))

\* generate_unique_slug: rivals are the other rows holding the slug
SlugTaken(v, slug) ==
    \E w \in (DOMAIN variants) \ {v} : variants[w].slug = slug

\* generate_unique_slug: original, original-2, original-3, ... until unused
RECURSIVE UniqueSlug(_, _, _)
UniqueSlug(v, original, index) ==
    LET tail == IF index = 1 THEN <<>> ELSE <<"-">> \o IntToChars(index)
        stem == IF SlugMaxLength < Len(original) + Len(tail)
                   THEN SubSeq(original, 1, SlugMaxLength - Len(tail))
                   ELSE original
        slug == stem \o tail
    IN  IF SlugTaken(v, slug) THEN UniqueSlug(v, original, index + 1) ELSE slug

\* AutoSlugField(unique=True, populate_from='product__name').pre_save: an
\* empty value is populated from the product's name; the value is
\* slugified, cropped and made unique; <<>> stands for NULL
AutoSlug(v, d) ==
    LET value == IF ObjectSlug(d) = <<>> THEN products[d.product].name
                                        ELSE ObjectSlug(d)
        slug == Slugify(value)
    IN  IF slug = <<>> THEN <<>> ELSE UniqueSlug(v, CropSlug(slug), 1)

\* A variant_name column without its unique index.
VariantNameUniqueDropped(v, d) == TRUE

\* variant_name: unique=True
VariantNameUnique(v, d) ==
    \A w \in (DOMAIN variants) \ {v} : variants[w].variant_name # d.variant_name

\* sku: unique=True
SkuUnique(v, d) ==
    \A w \in (DOMAIN variants) \ {v} : variants[w].sku # d.sku

\* UniqueConstraint(fields=['product', 'variant_name', 'size']): rows with a
\* NULL size never conflict
ProductVariantNameSizeUnique(v, d) ==
    \A w \in (DOMAIN variants) \ {v} :
        ~ /\ variants[w].product = d.product
          /\ variants[w].variant_name = d.variant_name
          /\ variants[w].size = d.size
          /\ d.size # 0

\* The unique index of the slug column (NULLs never conflict)
SlugUnique(v, slug) == slug = <<>> \/ ~SlugTaken(v, slug)

\* ProductVariant.save of the object d (its fields as the caller set them)
\* into row v: an INSERT when v is a new pk, an UPDATE otherwise.  A violated
\* constraint raises IntegrityError and stores nothing.  save() runs no
\* validator: offer_percentage is stored as the object holds it.
VariantSave(v, d) ==
    /\ request.op = "none"
    /\ d.product \in DOMAIN products
    /\ d.size \in {0} \cup DOMAIN sizes
    /\ LET slug == AutoSlug(v, d)
       IN  IF /\ VariantNameUnique(v, d)
              /\ SkuUnique(v, d)
              /\ ProductVariantNameSizeUnique(v, d)
              /\ SlugUnique(v, slug)
              THEN /\ variants' = WithRow(variants, v,
                                     [product |-> d.product,
                                      variant_name |-> d.variant_name,
                                      size |-> d.size,
                                      sku |-> d.sku,
                                      slug |-> slug,
                                      offer_percentage |-> d.offer_percentage])
                   /\ storeError' = "ok"
              ELSE /\ variants' = variants
                   /\ storeError' = "IntegrityError"
    /\ lastSave' = [v |-> v, d |-> d]
    /\ UNCHANGED <<terms, sizes, products, images, nulls_first, request,
                   context>>
    /\ UNCHANGED cascadeVars

\* Variant names: "R M" and "R" (with size "M") slugify alike; "!" slugifies
\* to nothing
VariantNames == {<<"R", " ", "M">>, <<"R">>, <<"!">>}

\* A slug set by application code, not in slug form
SuppliedSlugs == {<<"R", " ", "M">>}

\* The next primary key of a table
NextPk(table) ==
    IF DOMAIN table = {} THEN 1
    ELSE 1 + CHOOSE k \in DOMAIN table : \A j \in DOMAIN table : j <= k

\* The objects saved into row v.  A new row: any product, name and size,
\* its own sku or the first row's, no slug or a supplied one.  A stored row:
\* the row as loaded, with its slug, with the slug cleared, or with a
\* supplied one.
VariantObjects(v) ==
    IF v \in DOMAIN variants
       THEN {[variants[v] EXCEPT !.slug = g] :
                g \in {variants[v].slug, <<>>} \cup SuppliedSlugs}
       ELSE {[product |-> p, variant_name |-> n, size |-> z, sku |-> k,
              slug |-> g, offer_percentage |-> 0] :
                p \in DOMAIN products, n \in VariantNames,
                z \in {0, 1}, k \in {1, v},
                g \in {<<>>} \cup SuppliedSlugs}

\* A catalogue with one product of each name and no variants
CatalogueInit ==
    /\ terms = TermPopulation
    /\ sizes = SizePopulation
    /\ products = [p \in {1, 2} |->
                     [name |-> IF p = 1 THEN <<"T">> ELSE <<"!">>,
                      fk |-> [k \in Kinds |-> 1]]]
    /\ variants = <<>>
    /\ images = <<>>
    /\ nulls_first = TRUE
    /\ request = NoRequest
    /\ context = <<>>
    /\ storeError = "ok"
    /\ lastSave = NoSave
    /\ ChildTablesIdle

----------------------------------------------------------------------------
(* store/views.py: HomeView.get_context_data, and variant images *)

MaxImages == 2

ImageIds == 1..MaxImages

\* Character codes, for ORDER BY on names
CharOrd(c) ==
    CASE c = " " -> 32
      [] c = "!" -> 33
      [] c = "-" -> 45
      [] c = "M" -> 77
      [] c = "R" -> 82
      [] c = "S" -> 83
      [] c = "T" -> 84
      [] OTHER -> 127

\* a < b for names
RECURSIVE NameLess(_, _)
NameLess(a, b) ==
    IF b = <<>> THEN FALSE
    ELSE IF a = <<>> THEN TRUE
    ELSE IF Head(a) = Head(b) THEN NameLess(Tail(a), Tail(b))
    ELSE CharOrd(Head(a)) < CharOrd(Head(b))

\* ProductVariantImage(variant=..., is_primary=...).save() of a new image;
\* pks grow with the creation time
ImageCreate(i, variant, is_primary) ==
    /\ request.op = "none"
    /\ i = NextPk(images)
    /\ IF variant \in DOMAIN variants
          THEN /\ images' = WithRow(images, i, [variant |-> variant,
                                                is_primary |-> is_primary])
               /\ storeError' = "ok"
          ELSE /\ images' = images
               /\ storeError' = "IntegrityError"
    /\ UNCHANGED <<terms, sizes, products, variants, nulls_first, request,
                   context, lastSave>>
    /\ UNCHANGED cascadeVars

\* Product.Meta.ordering = ['name']: the orders in which
\* Product.objects...all() may yield the rows (equal names in any order)
ProductOrders ==
    LET n == Cardinality(DOMAIN products)
    IN  {o \in [1..n -> DOMAIN products] :
            /\ \A i, j \in 1..n : i # j => o[i] # o[j]
            /\ \A i, j \in 1..n :
                  i < j => ~NameLess(products[o[j]].name, products[o[i]].name)}

\* ORDER BY size (catalog.Size orders by name); where NULL sorts is the
\* database's choice
SizeBefore(a, b) ==
    IF a = b THEN FALSE
    ELSE IF a = 0 THEN nulls_first
    ELSE IF b = 0 THEN ~nulls_first
    ELSE NameLess(sizes[a], sizes[b])

\* ProductVariant.Meta.ordering = ['product__name', 'size']
VariantBefore(v, w) ==
    \/ NameLess(products[variants[v].product].name,
                products[variants[w].product].name)
    \/ /\ products[variants[v].product].name
             = products[variants[w].product].name
       /\ SizeBefore(variants[v].size, variants[w].size)

\* product.variants
VariantsOf(p) == {v \in DOMAIN variants : variants[v].product = p}

\* product.variants.first(): a variant of the product that none of its
\* variants precedes (among equals the database picks)
FirstVariants(p) ==
    {v \in VariantsOf(p) : \A w \in VariantsOf(p) : ~VariantBefore(w, v)}

\* The images of the variant, primary or not.
PrimaryImagesUnfiltered(v) == {i \in DOMAIN images : images[i].variant = v}

\* first_variant.variant_images.filter(is_primary=True)
PrimaryImages(v) ==
    {i \in DOMAIN images : images[i].variant = v /\ images[i].is_primary}

\* .first() under ProductVariantImage.Meta.ordering = ['created']; 0 is None
FirstImage(S) ==
    IF S = {} THEN 0 ELSE CHOOSE i \in S : \A j \in S : i <= j

\* A listing over the products that have variants only.
ListedProductsWithVariants == {p \in DOMAIN products : VariantsOf(p) # {}}

\* Product.objects.prefetch_related('variants__variant_images').all()
ListedProducts == DOMAIN products

\* One entry of product_data
Entry(p, fv) ==
    [product |-> p,
     first_variant |-> fv,
     primary_image |-> IF fv = 0 THEN 0 ELSE FirstImage(PrimaryImages(fv))]

\* HomeView.get_context_data
HomeView ==
    /\ request.op = "none"
    /\ \E o \in ProductOrders :
       \E fv \in [DOMAIN products -> {0} \cup DOMAIN variants] :
          /\ \A p \in DOMAIN products :
                IF VariantsOf(p) = {} THEN fv[p] = 0
                                      ELSE fv[p] \in FirstVariants(p)
          /\ context' = [i \in 1..Len(SelectSeq(o, LAMBDA p : p \in ListedProducts))
                           |-> Entry(SelectSeq(o, LAMBDA p : p \in ListedProducts)[i],
                                     fv[SelectSeq(o, LAMBDA p : p \in ListedProducts)[i]])]
    /\ request' = [op |-> "home"]
    /\ UNCHANGED <<terms, sizes, products, variants, images, nulls_first,
                   storeError, lastSave>>
    /\ UNCHANGED cascadeVars

\* The response is rendered and the request ends
HomeResponse ==
    /\ request.op = "home"
    /\ request' = NoRequest
    /\ context' = <<>>
    /\ UNCHANGED <<terms, sizes, products, variants, images, nulls_first,
                   storeError, lastSave>>
    /\ UNCHANGED cascadeVars

----------------------------------------------------------------------------
(* store/admin.py: ProductVariantImageAdmin.mark_as_primary *)

\* The selected rows in the order the changelist's queryset yields them
\* (Meta.ordering = ['created'], i.e. by pk)
RECURSIVE Ascending(_)
Ascending(S) ==
    IF S = {} THEN <<>>
    ELSE LET least == CHOOSE i \in S : \A j \in S : i <= j
         IN  <<least>> \o Ascending(S \ {least})

\* An update that resets nothing.
ResetPrimaryNone(imgs, v) == imgs

\* image.variant.variant_images.update(is_primary=False)
ResetPrimary(imgs, v) ==
    [k \in DOMAIN imgs |->
        IF imgs[k].variant = v THEN [imgs[k] EXCEPT !.is_primary = FALSE]
                               ELSE imgs[k]]

\* The loop over the queryset: loaded holds the rows as the queryset fetched
\* them, imgs is the table; image.save() writes the loaded row with
\* is_primary set
RECURSIVE MarkLoop(_, _, _)
MarkLoop(imgs, loaded, todo) ==
    IF todo = <<>> THEN imgs
    ELSE LET i == Head(todo)
             reset == ResetPrimary(imgs, loaded[i].variant)
             saved == WithRow(reset, i, [loaded[i] EXCEPT !.is_primary = TRUE])
         IN  MarkLoop(saved, loaded, Tail(todo))

\* The admin action on a selection (the changelist runs no action on an
\* empty one)
MarkAsPrimary(selected) ==
    /\ request.op = "none"
    /\ selected # {}
    /\ selected \subseteq DOMAIN images
    /\ images' = MarkLoop(images, images, Ascending(selected))
    /\ request' = [op |-> "mark_as_primary", selected |-> selected]
    /\ storeError' = "ok"
    /\ UNCHANGED <<terms, sizes, products, variants, nulls_first, context,
                   lastSave>>
    /\ UNCHANGED cascadeVars

\* The changelist is shown again and the request ends
AdminResponse ==
    /\ request.op = "mark_as_primary"
    /\ request' = NoRequest
    /\ UNCHANGED <<terms, sizes, products, variants, images, nulls_first,
                   context, storeError, lastSave>>
    /\ UNCHANGED cascadeVars

\* The name under which the listing's variants are created, by pk
ListingVariantName(v) ==
    IF v = 1 THEN <<"R", " ", "M">> ELSE IF v = 2 THEN <<"R">> ELSE <<"!">>

\* An empty store on either kind of database
ListingInit ==
    /\ terms = TermPopulation
    /\ sizes = SizePopulation
    /\ products = <<>>
    /\ variants = <<>>
    /\ images = <<>>
    /\ nulls_first \in BOOLEAN
    /\ request = NoRequest
    /\ context = <<>>
    /\ storeError = "ok"
    /\ lastSave = NoSave
    /\ ChildTablesIdle

\* MinValueValidator(0), MaxValueValidator(99) of offer_percentage
OfferPercentageValid(pct) == pct >= 0 /\ pct <= 99

\* The admin's change form for row v, posted with the fields d: the form's
\* full_clean runs the field validators and the uniqueness checks and, where
\* one fails, the form is shown again and nothing is saved; otherwise
\* save_model calls obj.save()
AdminVariantSave(v, d) ==
    IF /\ OfferPercentageValid(d.offer_percentage)
       /\ VariantNameUnique(v, d)
       /\ SkuUnique(v, d)
       /\ ProductVariantNameSizeUnique(v, d)
       THEN VariantSave(v, d)
       ELSE /\ request.op = "none"
            /\ d.product \in DOMAIN products
            /\ d.size \in {0} \cup DOMAIN sizes
            /\ storeError' = "ValidationError"
            /\ lastSave' = [v |-> v, d |-> d]
            /\ UNCHANGED <<terms, sizes, products, variants, images,
                           nulls_first, request, context>>
            /\ UNCHANGED cascadeVars

\* Offer percentages an object may hold: the ends of the validators' range
\* and values outside it
OfferInputs == {0, 99, 100, 150, 0 - 5}

\* The objects whose offer percentage is set before a save into row v: a
\* new variant of the first product, or the stored row as loaded
OfferObjects(v) ==
    {[(IF v \in DOMAIN variants
          THEN variants[v]
          ELSE [product |-> 1, variant_name |-> ListingVariantName(v),
                size |-> 0, sku |-> v, slug |-> <<>>,
                offer_percentage |-> 0])
       EXCEPT !.offer_percentage = pct] : pct \in OfferInputs}

----------------------------------------------------------------------------
(* store/models.py: the rows that reference other rows *)

MaxRows == 1

\* pks of the size attributes, reviews and review images
RowIds == 1..MaxRows

\* One user was saved before, with a generated code; the other objects are
\* new
OneUserStored ==
    /\ obj = [u \in UserIds |->
                [referral_code |-> IF u = 1 THEN RandomChoices(0) ELSE <<>>]]
    /\ userRows = [u \in {1} |-> RandomChoices(0)]
    /\ pc = [u \in UserIds |-> "idle"]
    /\ cand = [u \in UserIds |-> <<>>]
    /\ genCodes = {RandomChoices(0)}
    /\ saveResult = [u \in UserIds |-> IF u = 1 THEN "saved" ELSE "none"]

\* The variant created under pk v: the first two belong to the first
\* product and have the two sizes, the others belong to the second product
\* and have no size
CascadeVariant(v) ==
    [product |-> IF v <= 2 THEN 1 ELSE 2,
     variant_name |-> ListingVariantName(v),
     size |-> IF v \in DOMAIN SizePopulation THEN v ELSE 0,
     sku |-> v, slug |-> <<>>, offer_percentage |-> 0]

\* The row that the child row of pk k references, in a table of n rows
ParentRow(k, n) == ((k - 1) % n) + 1

----------------------------------------------------------------------------
(* Specifications *)

Init == UserInit /\ PriceIdle /\ ColorIdle /\ StoreIdle

Next ==
    \E u \in UserIds :
        /\ NoOtherSaveRunning(u)
        /\ UNCHANGED <<priceVars, colorVars, storeVars>>
        /\ \/ \E c \in SuppliedCodes \cup {<<>>} : SetReferralCode(u, c)
           \/ SaveBegin(u)
           \/ GenRetry(u)
           \/ GenReturn(u)
           \/ SuperSave(u)

\* Sequential saves of users
Spec == Init /\ [][Next]_vars

\* random.choices is fair: an outcome that stays possible while the loop
\* runs is drawn in the end
RetryFairness ==
    \A u \in UserIds :
        WF_vars(/\ NoOtherSaveRunning(u)
                /\ GenReturn(u)
                /\ UNCHANGED <<priceVars, colorVars, storeVars>>)

\* Saves of users whose codes all come from the generator: an object's code
\* is only ever cleared by the caller
RetryNext ==
    \E u \in UserIds :
        /\ NoOtherSaveRunning(u)
        /\ UNCHANGED <<priceVars, colorVars, storeVars>>
        /\ \/ SetReferralCode(u, <<>>)
           \/ SaveBegin(u)
           \/ GenRetry(u)
           \/ GenReturn(u)
           \/ SuperSave(u)

\* Sequential saves of users under a fair generator
SpecRetry == Init /\ [][RetryNext]_vars /\ RetryFairness

\* Saves of users in concurrent requests: the steps of different objects'
\* saves interleave freely (each lookup and each INSERT is a statement of
\* its own in autocommit mode)
ConcurrentNext ==
    \E u \in UserIds :
        /\ UNCHANGED <<priceVars, colorVars, storeVars>>
        /\ \/ SetReferralCode(u, <<>>)
           \/ SaveBegin(u)
           \/ GenRetry(u)
           \/ GenReturn(u)
           \/ SuperSave(u)

\* Interleaved saves of users whose codes come from the generator
SpecConcurrent == Init /\ [][ConcurrentNext]_vars

PriceSpecInit == UserInit /\ PriceInit /\ ColorIdle /\ StoreIdle

PriceNext ==
    /\ UNCHANGED <<userVars, colorVars, storeVars>>
    /\ \/ GetOfferPrice
       \/ AdminGetOfferPrice

\* get_offer_price as a function of its inputs
SpecPrice == PriceSpecInit /\ [][PriceNext]_vars

ColorSpecInit == UserInit /\ PriceIdle /\ ColorInit /\ StoreIdle

ColorNext == ColorSave /\ UNCHANGED <<userVars, priceVars, storeVars>>

\* Color.save on an upload
SpecColor == ColorSpecInit /\ [][ColorNext]_vars

TaxonomyNext ==
    /\ UNCHANGED <<userVars, priceVars, colorVars>>
    /\ \/ \E p \in ProductIds, name \in ProductNames,
             fk \in [Kinds -> {1, 2}] :
               /\ \A k \in Kinds : fk[k] \in TermPopulation[k]
               /\ ProductCreate(p, name, fk)
       \/ \E p \in ProductIds : ProductDelete(p)
       \/ \E kind \in Kinds, t \in {1, 2} : TermDelete(kind, t)

\* Products and the taxonomy terms they reference
SpecTaxonomy == Init /\ [][TaxonomyNext]_vars

VariantSpecInit == UserInit /\ PriceIdle /\ ColorIdle /\ CatalogueInit

VariantNext ==
    /\ UNCHANGED <<userVars, priceVars, colorVars>>
    /\ \E v \in VariantIds :
          /\ v \in (DOMAIN variants) \cup {NextPk(variants)}
          /\ \E d \in VariantObjects(v) : VariantSave(v, d)

\* Saves of product variants into a fixed catalogue
SpecVariant == VariantSpecInit /\ [][VariantNext]_vars

ListingSpecInit == UserInit /\ PriceIdle /\ ColorIdle /\ ListingInit

ListingNext ==
    /\ UNCHANGED <<userVars, priceVars, colorVars>>
    /\ \/ \E p \in ProductIds :
             /\ p = NextPk(products)
             /\ ProductCreate(p, IF p = 2 THEN <<"!">> ELSE <<"T">>,
                              [k \in Kinds |-> 1])
       \/ \E v \in VariantIds, p \in (DOMAIN products) \cap {1, 2},
             z \in {0, 1, 2} :
             /\ v = NextPk(variants)
             /\ VariantSave(v, [product |-> p,
                                variant_name |-> ListingVariantName(v),
                                size |-> z, sku |-> v, slug |-> <<>>,
                                offer_percentage |-> 0])
       \/ \E i \in ImageIds, v \in (DOMAIN variants) \cap {1, 2},
             b \in BOOLEAN :
             ImageCreate(i, v, b)
       \/ HomeView
       \/ HomeResponse

\* The storefront listing over a store that is filled step by step; variants
\* are added to the first two products and images to the first two variants
SpecListing == ListingSpecInit /\ [][ListingNext]_vars

ImagesNext ==
    /\ UNCHANGED <<userVars, priceVars, colorVars>>
    /\ \/ \E v \in VariantIds, p \in {1, 2}, z \in {0, 1} :
             /\ v = NextPk(variants)
             /\ VariantSave(v, [product |-> p,
                                variant_name |-> ListingVariantName(v),
                                size |-> z, sku |-> v, slug |-> <<>>,
                                offer_percentage |-> 0])
       \/ \E i \in ImageIds, v \in DOMAIN variants, b \in BOOLEAN :
             ImageCreate(i, v, b)
       \/ \E selected \in SUBSET ImageIds : MarkAsPrimary(selected)
       \/ AdminResponse

\* The image admin over a catalogue whose variants and images are added
\* step by step
SpecImages == VariantSpecInit /\ [][ImagesNext]_vars

OfferNext ==
    /\ UNCHANGED <<userVars, priceVars, colorVars>>
    /\ \E v \in VariantIds :
          /\ v \in (DOMAIN variants) \cup {NextPk(variants)}
          /\ \E d \in OfferObjects(v) :
                \/ AdminVariantSave(v, d)
                \/ VariantSave(v, d)

\* Variants saved from the admin's form and from application code
SpecOffer == VariantSpecInit /\ [][OfferNext]_vars

CascadeSpecInit == OneUserStored /\ PriceIdle /\ ColorIdle /\ StoreIdle

CascadeNext ==
    /\ UNCHANGED <<priceVars, colorVars>>
    /\ \/ /\ UNCHANGED userVars
          /\ \/ \E p \in ProductIds :
                   /\ p = NextPk(products)
                   /\ ProductCreate(p, IF p = 2 THEN <<"!">> ELSE <<"T">>,
                                    [k \in Kinds |-> 1])
             \/ \E v \in VariantIds :
                   /\ v = NextPk(variants)
                   /\ VariantSave(v, CascadeVariant(v))
             \/ \E i \in ImageIds :
                   ImageCreate(i, ParentRow(i, MaxVariants), FALSE)
             \/ \E k \in RowIds :
                   SizeAttributeCreate(k, ParentRow(k, 2),
                                       ParentRow(k, MaxVariants), 1)
             \/ \E k \in RowIds : ReviewCreate(k, 1, ParentRow(k, MaxVariants))
             \/ \E k \in RowIds : ReviewImageCreate(k, k)
             \/ \E p \in ProductIds : ProductDelete(p)
             \/ \E v \in VariantIds : VariantDelete(v)
             \/ \E z \in DOMAIN SizePopulation : SizeDelete(z)
             \/ \E a \in AttributePopulation : AttributeDelete(a)
             \/ TermDelete("pattern", 1)
       \/ \E u \in UserIds : UserDelete(u)

\* The store filled and emptied row by row: every child row is created
\* under a fixed parent, and every parent may be deleted (of the terms, the
\* pattern that the products reference)
SpecCascade == CascadeSpecInit /\ [][CascadeNext]_vars

----------------------------------------------------------------------------
(* C1: every code returned by generate_unique_referral_code has exactly 8
   characters, all of them in A-Z or 0-9, and no two stored users hold the
   same referral_code. *)
ReferralCodesWellFormedAndUnique ==
    /\ \A c \in genCodes :
          /\ Len(c) = 8
          /\ \A i \in 1..Len(c) :
                c[i] \in {"A","B","C","D","E","F","G","H","I","J","K","L","M",
                          "N","O","P","Q","R","S","T","U","V","W","X","Y","Z",
                          "0","1","2","3","4","5","6","7","8","9"}
    /\ \A j, k \in DOMAIN userRows : j # k => userRows[j] # userRows[k]

\* Two users are stored, both with generated codes.
TwoGeneratedUsersStored ==
    /\ Cardinality(DOMAIN userRows) >= 2
    /\ \A k \in DOMAIN userRows : userRows[k] \in genCodes

(* C2: a save of a user whose referral_code is non-empty goes straight to
   the insert/update without entering the generator, and leaves the
   object's referral_code as it was; a successful save stores that code. *)
SaveKeepsExistingCode ==
    [][\A u \in UserIds :
          /\ (pc[u] = "idle" /\ pc'[u] # "idle" /\ obj[u].referral_code # <<>>)
                => (pc'[u] = "insert" /\ obj' = obj /\ genCodes' = genCodes)
          /\ (pc[u] = "insert")
                => /\ obj'[u] = obj[u]
                   /\ genCodes' = genCodes
                   /\ (saveResult'[u] = "saved"
                          => userRows'[u] = obj[u].referral_code)]_vars

\* A stored user is saved again, and a new user is saved with a supplied code.
ResaveWithCodeInProgress ==
    \E u, v \in UserIds :
        /\ u \in DOMAIN userRows /\ pc[u] = "insert"
        /\ obj[u].referral_code = userRows[u]
        /\ v \in DOMAIN userRows /\ userRows[v] \notin genCodes

(* C3: for offer_percentage p in 0..99 the returned offer price equals
   base_price * (100 - p) / 100 exactly: in units of 10^-4 it is
   base_price (in hundredths) times (100 - p). *)
OfferPriceExact ==
    (price_pc = "returned" /\ offer_percentage \in 0..99)
        => /\ offer_price.exp >= 0 - 4
           /\ offer_price.exp <= 0
           /\ Signed(offer_price) * Pow10(offer_price.exp + 4)
                 = base_price * (100 - offer_percentage)

\* base_price = 200.00 and offer_percentage = 25 returned 150.00
OfferPriceExample ==
    /\ price_pc = "returned"
    /\ base_price = 20000 /\ offer_percentage = 25
    /\ Signed(offer_price) * Pow10(offer_price.exp + 4) = 1500000

(* C4: for offer_percentage in 0..99 and every storable base price,
   0 <= offer_price <= base_price. *)
OfferPriceWithinBase ==
    (price_pc = "returned" /\ offer_percentage \in 0..99)
        => /\ 0 <= Signed(offer_price)
           /\ Signed(offer_price) * Pow10(offer_price.exp + 4)
                 <= base_price * 100

(* C9: a saved Color image whose file extension is .png (in any case) is
   stored as PNG with content type image/png, and any other image is stored
   as JPEG. *)
ColorFormatFamilyPreserved ==
    (color_pc = "saved" /\ color_image.name # <<>>)
        => IF Lower(SplitExt(color_image.name)) = <<".", "p", "n", "g">>
              THEN /\ color_image.format = "PNG"
                   /\ color_image.content_type = "image/png"
              ELSE /\ color_image.format = "JPEG"
                   /\ color_image.content_type = "image/jpeg"

(* C6: deleting a taxonomy term that some product references is rejected
   and changes neither the terms nor the products; a term is removed only
   in a step from a state where no product references it. *)
ReferencedTermDeleteRejected ==
    [][\A kind \in Kinds, t \in {1, 2} :
          /\ (TermDelete(kind, t)
                 /\ \E p \in DOMAIN products : products[p].fk[kind] = t)
                => /\ terms' = terms
                   /\ products' = products
                   /\ storeError' = "ProtectedError"
          /\ (t \in terms[kind] /\ t \notin terms'[kind])
                => \A p \in DOMAIN products : products[p].fk[kind] # t
          /\ (TermDelete(kind, t)
                 /\ \A p \in DOMAIN products : products[p].fk[kind] # t)
                => (t \notin terms'[kind] /\ products' = products)]_vars

\* A delete of a referenced term was refused, and another term of that kind
\* has been deleted.
ProtectedDeleteRefused ==
    /\ storeError = "ProtectedError"
    /\ \E kind \in Kinds :
          /\ \E p \in DOMAIN products : products[p].fk[kind] \in terms[kind]
          /\ terms[kind] # TermPopulation[kind]

(* C5: creating a variant whose (product, variant_name, size) equals that
   of a stored variant is rejected and leaves the stored variants as they
   were, for every size, the absent one included. *)
DuplicateVariantRejected ==
    [][(/\ lastSave'.v # 0
        /\ lastSave'.v \notin DOMAIN variants
        /\ \E w \in DOMAIN variants :
              /\ variants[w].product = lastSave'.d.product
              /\ variants[w].variant_name = lastSave'.d.variant_name
              /\ variants[w].size = lastSave'.d.size)
          => (variants' = variants /\ storeError' = "IntegrityError")]_vars

\* A creation that repeats the product and name of a stored variant, both
\* without size, has been refused.
NullSizeDuplicateRefused ==
    /\ storeError = "IntegrityError"
    /\ lastSave.v \notin DOMAIN variants
    /\ lastSave.d.size = 0
    /\ \E w \in DOMAIN variants :
          /\ variants[w].product = lastSave.d.product
          /\ variants[w].variant_name = lastSave.d.variant_name
          /\ variants[w].size = 0

\* The lower-cased, hyphenated form of the model's variant names, written
\* out: "R M" gives "r-m", "R" gives "r", "!" gives nothing.
NameForm(name) ==
    CASE name = <<"R", " ", "M">> -> <<"r", "-", "m">>
      [] name = <<"R">> -> <<"r">>
      [] OTHER -> <<>>

\* The same for the sizes: "M" gives "m", "S" gives "s".
SizeForm(z) == IF z = 1 THEN <<"m">> ELSE IF z = 2 THEN <<"s">> ELSE <<>>

\* The form of the name, followed by that of the size when there is one
LowerHyphenated(d) ==
    IF d.size = 0 THEN NameForm(d.variant_name)
    ELSE IF NameForm(d.variant_name) = <<>> THEN SizeForm(d.size)
    ELSE NameForm(d.variant_name) \o <<"-">> \o SizeForm(d.size)

\* Lower-case letters, digits, underscores and single inner hyphens only
InSlugForm(g) ==
    /\ g # <<>>
    /\ \A i \in 1..Len(g) :
          g[i] \in {"r", "m", "t", "s", "_", "-",
                    "0", "1", "2", "3", "4", "5", "6", "7", "8", "9"}
    /\ g[1] \notin {"-", "_"} /\ g[Len(g)] \notin {"-", "_"}
    /\ \A i \in 1..(Len(g) - 1) : ~(g[i] = "-" /\ g[i + 1] = "-")

\* The slugs of the stored variants other than row v
OtherSlugs(v) == {variants[w].slug : w \in (DOMAIN variants) \ {v}}

\* Decimal digits of n, for n below 100
Digits(n) ==
    LET digit(k) == <<"0", "1", "2", "3", "4", "5", "6", "7", "8", "9">>[k + 1]
    IN  IF n < 10 THEN <<digit(n)>> ELSE <<digit(n \div 10), digit(n % 10)>>

(* C10 as stated: a successful save of a variant without slug stores the
   lower-cased, hyphenated form of variant_name and size name as its slug;
   no two stored variants have the same slug; a variant saved with a slug
   keeps it. *)
VariantSlugIsDerivedForm ==
    /\ (lastSave.v \in DOMAIN variants /\ storeError = "ok"
           /\ lastSave.d.slug = <<>>)
          => variants[lastSave.v].slug = LowerHyphenated(lastSave.d)
    /\ \A v, w \in DOMAIN variants :
          v # w => variants[v].slug # variants[w].slug
    /\ (lastSave.v \in DOMAIN variants /\ storeError = "ok"
           /\ lastSave.d.slug # <<>>)
          => variants[lastSave.v].slug = lastSave.d.slug

(* C10, amended: a successful save of a variant without slug, whose derived
   form is not empty, stores the form when no other stored variant holds
   it, and otherwise the form followed by -N for the least N >= 2 that no
   other stored variant holds; no two stored variants have the same slug
   (NULL aside); a variant saved with a slug that is in slug form and held
   by no other variant keeps it. *)
VariantSlugIsDerivedFormOrSuffixed ==
    /\ (lastSave.v \in DOMAIN variants /\ storeError = "ok"
           /\ lastSave.d.slug = <<>> /\ LowerHyphenated(lastSave.d) # <<>>)
          => LET form == LowerHyphenated(lastSave.d)
                 others == OtherSlugs(lastSave.v)
                 slug == variants[lastSave.v].slug
             IN  \/ slug = form /\ form \notin others
                 \/ /\ form \in others
                    /\ \E n \in 2..(MaxVariants + 1) :
                          /\ slug = form \o <<"-">> \o Digits(n)
                          /\ slug \notin others
                          /\ \A m \in 2..(n - 1) :
                                (form \o <<"-">> \o Digits(m)) \in others
    /\ \A v, w \in DOMAIN variants :
          (v # w /\ variants[v].slug # <<>>)
             => variants[v].slug # variants[w].slug
    /\ (lastSave.v \in DOMAIN variants /\ storeError = "ok"
           /\ InSlugForm(lastSave.d.slug)
           /\ lastSave.d.slug \notin OtherSlugs(lastSave.v))
          => variants[lastSave.v].slug = lastSave.d.slug

\* A variant saved without slug got its form with a suffix, because another
\* variant held the form; and a stored variant was saved again with its slug.
SuffixedSlugStored ==
    /\ lastSave.v \in DOMAIN variants /\ storeError = "ok"
    /\ lastSave.d.slug = <<>>
    /\ LowerHyphenated(lastSave.d) \in OtherSlugs(lastSave.v)
    /\ variants[lastSave.v].slug = LowerHyphenated(lastSave.d) \o <<"-", "2">>

(* C7: the listing has exactly one entry for every stored product (none
   when there is no product), and the entry of a product without variants
   has neither first_variant nor primary_image. *)
ListingHasOneEntryPerProduct ==
    request.op = "home"
        => /\ Len(context) = Cardinality(DOMAIN products)
           /\ \A p \in DOMAIN products :
                 \E i \in 1..Len(context) :
                    /\ context[i].product = p
                    /\ \A j \in 1..Len(context) :
                          context[j].product = p => j = i
                    /\ (\A v \in DOMAIN variants : variants[v].product # p)
                          => /\ context[i].first_variant = 0
                             /\ context[i].primary_image = 0

\* A listing of two products, one of them without variants
ListingWithBareProduct ==
    /\ request.op = "home"
    /\ Cardinality(DOMAIN products) >= 2
    /\ \E p, q \in DOMAIN products :
          /\ \A v \in DOMAIN variants : variants[v].product # p
          /\ \E v \in DOMAIN variants : variants[v].product = q

(* C8: in every entry a present first_variant is a variant of the entry's
   product that no other variant of the product precedes in the default
   ordering (size name; NULL first or last as the database sorts it);
   primary_image is present exactly when that variant has an image flagged
   is_primary, and is then a primary image of that very variant. *)
ListingEntriesResolved ==
    request.op = "home"
        => \A i \in 1..Len(context) :
              LET e == context[i]
                  siblings == {w \in DOMAIN variants :
                                 variants[w].product = e.product}
              IN  /\ (siblings # {}) => e.first_variant # 0
                  /\ (e.first_variant # 0)
                        => /\ e.first_variant \in siblings
                           /\ \A w \in siblings :
                                 LET a == variants[w].size
                                     b == variants[e.first_variant].size
                                 IN  ~ \/ (a = 0 /\ b # 0 /\ nulls_first)
                                       \/ (a # 0 /\ b = 0 /\ ~nulls_first)
                                       \/ (a = 1 /\ b = 2)
                  /\ (e.primary_image # 0)
                        <=> (/\ e.first_variant # 0
                             /\ \E k \in DOMAIN images :
                                   /\ images[k].variant = e.first_variant
                                   /\ images[k].is_primary)
                  /\ (e.primary_image # 0)
                        => /\ e.primary_image \in DOMAIN images
                           /\ images[e.primary_image].variant = e.first_variant
                           /\ images[e.primary_image].is_primary

\* A listing entry whose product has two variants of different sizes, the
\* later-created one first in the ordering, with a primary image on the
\* first variant and an image on the other one.
ListingResolvesAmongVariants ==
    /\ request.op = "home"
    /\ \E i \in 1..Len(context) :
          /\ context[i].first_variant = 2
          /\ 1 \in DOMAIN variants
          /\ variants[1].product = context[i].product
          /\ variants[1].size # variants[2].size
          /\ context[i].primary_image # 0
          /\ \E k \in DOMAIN images : images[k].variant = 1


\* The variants that own a selected image
SelectedVariants(imgs, selected) == {imgs[i].variant : i \in selected}

(* C11: after mark_as_primary on a selection, every variant that owns a
   selected image has exactly one image with is_primary true and that image
   is a selected one; the images of the variants without a selected image
   are as they were. *)
MarkAsPrimaryLeavesOnePrimary ==
    [][(request.op = "none" /\ request'.op = "mark_as_primary") =>
          LET selected == request'.selected
              owners == SelectedVariants(images, selected)
          IN  /\ DOMAIN images' = DOMAIN images
              /\ \A v \in owners :
                    /\ Cardinality({i \in DOMAIN images' :
                                       /\ images'[i].variant = v
                                       /\ images'[i].is_primary}) = 1
                    /\ \A i \in DOMAIN images' :
                          (images'[i].variant = v /\ images'[i].is_primary)
                             => i \in selected
              /\ \A i \in DOMAIN images :
                    images[i].variant \notin owners => images'[i] = images[i]
      ]_vars

\* Two images of one variant were selected together, one more than the
\* variant can keep as primary.
TwoOfOneVariantMarked ==
    /\ request.op = "mark_as_primary"
    /\ \E i, j \in request.selected :
          /\ i # j
          /\ images[i].variant = images[j].variant
          /\ images[j].is_primary
          /\ ~images[i].is_primary

(* C12: in every reachable state every stored ProductVariant has an
   offer_percentage from 0 to 99, whether the row was written through the
   admin form or by application code calling save. *)
OfferPercentagesInRange ==
    \A v \in DOMAIN variants :
        variants[v].offer_percentage >= 0 /\ variants[v].offer_percentage <= 99

\* Some code the generator can draw is stored for no user
SomeCodeUnused ==
    \E d \in Draws : \A k \in DOMAIN userRows : userRows[k] # RandomChoices(d)

(* C13: while some code is unused, the loop of
   generate_unique_referral_code returns in the end (under a fair random
   choice); the code it returns is one that no stored user held when it was
   looked up; no stored user changes while the loop runs. *)
RetryLoopReturnsUnusedCode ==
    /\ \A u \in UserIds :
          (pc[u] = "gen" /\ SomeCodeUnused) ~> (pc[u] = "insert")
    /\ [][\A u \in UserIds :
             pc[u] = "gen" =>
                /\ userRows' = userRows
                /\ pc'[u] # "gen" =>
                      /\ pc'[u] = "insert"
                      /\ \A k \in DOMAIN userRows :
                            userRows[k] # obj'[u].referral_code
        ]_vars

\* The loop has drawn a stored code and goes round again, with another code
\* still unused.
RetryingWithUnusedCodeLeft ==
    \E u \in UserIds :
        /\ pc[u] = "gen"
        /\ cand[u] # <<>>
        /\ \E k \in DOMAIN userRows : userRows[k] = cand[u]
        /\ SomeCodeUnused

(* C14: when saves of users without codes interleave, no state stores two
   users with the same referral_code; an insert of a code that another
   stored user holds is rejected by the unique index and stores nothing. *)
InterleavedSavesKeepCodesUnique ==
    /\ [](\A j, k \in DOMAIN userRows : j # k => userRows[j] # userRows[k])
    /\ [][\A u \in UserIds :
             (/\ pc[u] = "insert"
              /\ pc'[u] = "idle"
              /\ \E k \in DOMAIN userRows :
                    k # u /\ userRows[k] = obj[u].referral_code)
                => (userRows' = userRows /\ saveResult'[u] = "IntegrityError")
        ]_vars

\* Two saves drew the same code, both after a lookup that found it unused;
\* one was stored and the other refused.
SameCodeDrawnTwiceOneStored ==
    \E u, w \in UserIds :
        /\ u # w
        /\ obj[u].referral_code # <<>>
        /\ obj[u].referral_code = obj[w].referral_code
        /\ saveResult[u] = "saved"
        /\ u \in DOMAIN userRows
        /\ userRows[u] = obj[u].referral_code
        /\ saveResult[w] = "IntegrityError"
        /\ w \notin DOMAIN userRows
        /\ pc[u] = "idle"
        /\ pc[w] = "idle"

(* C16: for every variant whose product has a base price, the admin column
   ProductVariantAdmin.get_offer_price(obj) ends without raising and yields
   the value of ProductVariant.get_offer_price. *)
AdminOfferPriceAgrees ==
    price_pc \notin {"idle", "input", "returned"}
        => /\ price_pc = "admin:returned"
           /\ offer_price = get_offer_price(base_price, offer_percentage)

\* Every reference of every stored row names a stored row
ChildrenHaveParents ==
    /\ \A p \in DOMAIN products :
          \A k \in Kinds : products[p].fk[k] \in terms[k]
    /\ \A v \in DOMAIN variants :
          /\ variants[v].product \in DOMAIN products
          /\ variants[v].size \in {0} \cup DOMAIN sizes
    /\ \A i \in DOMAIN images : images[i].variant \in DOMAIN variants
    /\ \A k \in DOMAIN sizeAttributes :
          /\ sizeAttributes[k].size \in DOMAIN sizes
          /\ sizeAttributes[k].product_variant \in DOMAIN variants
          /\ sizeAttributes[k].attribute \in attributes
    /\ \A r \in DOMAIN reviews :
          /\ reviews[r].user \in DOMAIN userRows
          /\ reviews[r].product_variant \in DOMAIN variants
    /\ \A g \in DOMAIN reviewImages :
          reviewImages[g].review \in DOMAIN reviews

(* C15: after any creations and deletions every stored child row references
   a stored parent; the step that deletes a product removes its variants and
   the images, size attributes, reviews and review images under them; the
   step that deletes a size keeps the variants that had it, with no size. *)
CascadesKeepReferencesWhole ==
    /\ []ChildrenHaveParents
    /\ [][\A p \in DOMAIN products :
             p \notin DOMAIN products' =>
                \A v \in DOMAIN variants :
                   variants[v].product = p =>
                      /\ v \notin DOMAIN variants'
                      /\ \A i \in DOMAIN images :
                            images[i].variant = v => i \notin DOMAIN images'
                      /\ \A k \in DOMAIN sizeAttributes :
                            sizeAttributes[k].product_variant = v
                               => k \notin DOMAIN sizeAttributes'
                      /\ \A r \in DOMAIN reviews :
                            reviews[r].product_variant = v =>
                               /\ r \notin DOMAIN reviews'
                               /\ \A g \in DOMAIN reviewImages :
                                     reviewImages[g].review = r
                                        => g \notin DOMAIN reviewImages'
        ]_vars
    /\ [][\A z \in DOMAIN sizes :
             z \notin DOMAIN sizes' =>
                /\ DOMAIN variants' = DOMAIN variants
                /\ \A v \in DOMAIN variants :
                      variants'[v] = IF variants[v].size = z
                                        THEN [variants[v] EXCEPT !.size = 0]
                                        ELSE variants[v]
        ]_vars

\* A product was deleted together with two variants and rows of every kind
\* under them, and the store is whole.
ProductDeletedWithAllItsRows ==
    /\ deleted.model = "Product"
    /\ deleted.rows.variants >= 2
    /\ deleted.rows.images >= 1
    /\ deleted.rows.sizeAttributes >= 1
    /\ deleted.rows.reviews >= 1
    /\ deleted.rows.reviewImages >= 1
    /\ ChildrenHaveParents

====
